---- MODULE Spec2Model ----
(***************************************************************************)
(* A model of the news-scraper ingestion pipeline: the URL normalizer, the *)
(* append-only JSONL record stores, the scrape / analyze / index stages    *)
(* and the single-URL orchestrator.                                        *)
(***************************************************************************)
EXTENDS Integers, Sequences, FiniteSets, TLC

VARIABLES
    urlsFile,   \* the lines of the input URL list file
    files,      \* which of the store files "raw", "ai" exist on disk
    rawStore,   \* data/raw/articles_raw.jsonl: sequence of raw lines
    aiStore,    \* data/processed/articles_ai.jsonl: sequence of AI lines
    vecStore,   \* the vector store: sequence of document ids, in insertion order
    proc,       \* the running (or last finished) operation and its locals
    prev,       \* what the operation before it was and returned
    runs,       \* number of operations started so far
    peer        \* the locals of a second process on the same files, off the CPU

vars == <<urlsFile, files, rawStore, aiStore, vecStore, proc, prev, runs, peer>>

(***************************************************************************)
(* Bounds of the model.                                                    *)
(***************************************************************************)
MaxInput == 2
MaxRuns == 2
MaxLimit == 2
MaxPreload == 2
MaxChars == 3
PipelineMinChars == 2

Min(a, b) == IF a < b THEN a ELSE b

Last(s) == s[Len(s)]

Front(s) == SubSeq(s, 1, Len(s) - 1)

RECURSIVE SeqToSet(_)
SeqToSet(s) == IF s = <<>> THEN {} ELSE {Head(s)} \cup SeqToSet(Tail(s))

SeqsUpTo(S, n) == UNION {[1..k -> S] : k \in 0..n}

(***************************************************************************)
(* URLs.  A URL string is kept as its parts: surrounding whitespace, the   *)
(* scheme, the host, the path (a sequence of characters), whether a "?" is *)
(* present, the query characters after it, and whether a "#fragment" is    *)
(* present.  Two strings are equal iff their parts are.                    *)
(***************************************************************************)
Url(scheme, host, path) ==
    [ws |-> FALSE, scheme |-> scheme, host |-> host, path |-> path,
     qmark |-> FALSE, query |-> <<>>, frag |-> FALSE]

NoUrl == Url("", "", <<>>)

Lower(host) == IF host = "A.com" THEN "a.com" ELSE host

\* The string urlunsplit builds ends with "/".
EndsWithSlash(u) ==
    IF u.query # <<>> THEN Last(u.query) = "/"
    ELSE u.path # <<>> /\ Last(u.path) = "/"

\* normalized[:-1], the string read again as its parts.
DropLastChar(u) ==
    IF u.query # <<>>
    THEN [u EXCEPT !.query = Front(u.query)]
    ELSE [u EXCEPT !.path = Front(u.path)]

normalize_url(u) ==
    LET parts == [u EXCEPT !.ws = FALSE, !.frag = FALSE,
                           !.qmark = (u.query # <<>>)]
    IN  IF EndsWithSlash(parts) /\ parts.path \notin {<<>>, <<"/">>}
        THEN DropLastChar(parts)
        ELSE parts

\* pydantic's HttpUrl accepts http and https URLs with a host only.
HttpUrlValid(u) == u.scheme \in {"http", "https"} /\ u.host # ""

\* str() of a validated HttpUrl: host lowercased, empty path written "/".
HttpUrlStr(u) ==
    [u EXCEPT !.host = Lower(u.host),
              !.path = IF u.path = <<>> THEN <<"/">> ELSE u.path]

(***************************************************************************)
(* The URLs the pipeline specifications draw their inputs from.            *)
(***************************************************************************)
UrlX    == Url("https", "a.com", <<"/", "x">>)
UrlXS   == Url("https", "a.com", <<"/", "x", "/">>)
UrlXSS  == Url("https", "a.com", <<"/", "x", "/", "/">>)
UrlBare == Url("https", "a.com", <<>>)
UrlY    == Url("https", "a.com", <<"/", "y">>)
UrlFtp  == Url("ftp", "a.com", <<"/", "x">>)

PipelineUrls == {UrlX, UrlXS, UrlXSS, UrlBare, UrlY, UrlFtp}

(***************************************************************************)
(* The input URL list file.  A line is a URL (possibly with surrounding    *)
(* whitespace), a "#" comment or blank.                                    *)
(***************************************************************************)
UrlLine(u) == [kind |-> "url", u |-> u]

CommentLine == [kind |-> "comment", u |-> NoUrl]

BlankLine == [kind |-> "blank", u |-> NoUrl]

StripLine(l) == [l EXCEPT !.u = [l.u EXCEPT !.ws = FALSE]]

RECURSIVE DedupLines(_, _)
DedupLines(lines, seen) ==
    IF lines = <<>> THEN <<>>
    ELSE LET line == StripLine(Head(lines))
         IN  IF line.kind \in {"blank", "comment"} \/ line \in seen
             THEN DedupLines(Tail(lines), seen)
             ELSE <<line.u>> \o DedupLines(Tail(lines), seen \cup {line})

read_urls_from_file(lines) == DedupLines(lines, {})

(***************************************************************************)
(* Record stores.                                                          *)
(***************************************************************************)
\* A seen-set that is always empty.
load_seen_nothing(exists, store) == {}

\* The seen-set of the url fields as they are written, not normalized.
load_seen_urls_as_written(exists, store) ==
    IF ~exists THEN {}
    ELSE {store[i].url : i \in {j \in 1..Len(store) : store[j].url # NoUrl}}

\* obj.get("url") of a line; NoUrl stands for a missing or empty url field.
load_seen_urls(exists, store) ==
    IF ~exists THEN {}
    ELSE {normalize_url(store[i].url) : i \in {j \in 1..Len(store) : store[j].url # NoUrl}}

\* The file opened for writing, not for appending: the line replaces it.
append_jsonl_truncating(store, rec) == <<rec>>

append_jsonl(store, rec) == Append(store, rec)

(***************************************************************************)
(* Scrape stage.                                                           *)
(***************************************************************************)
NoLimit == 0 - 1

Limits == {NoLimit} \cup (0..MaxLimit)

\* The limit applied nowhere before the loop.
TakeLimitNever(urls, limit) == urls

TakeLimit(urls, limit) ==
    IF limit = NoLimit THEN urls ELSE SubSeq(urls, 1, Min(limit, Len(urls)))

\* What the fetch collaborator and the extraction libraries give for one URL:
\* kind "http_error" (httpx.HTTPError after the retries), "exception" (any
\* other exception) or "response"; for a response, whether it has a body,
\* whether a title was found and the length of the stripped main text.
Outcome(kind, html, title, chars) ==
    [kind |-> kind, html |-> html, title |-> title, chars |-> chars]

extract_article(o, min_chars) ==
    LET text  == IF o.chars > 0 THEN "text" ELSE "none"
        chars == IF text # "none" THEN o.chars ELSE 0
    IN  [title |-> IF o.title THEN "title" ELSE "none",
         text  |-> IF chars < min_chars THEN "none" ELSE text,
         chars |-> chars]

NewArticleRaw(url, now) ==
    [url |-> HttpUrlStr(url), title |-> "none", text |-> "none",
     fetched_at |-> now, status |-> "ok", error |-> "none",
     http_status |-> "unset", chars |-> 0]

\* ArticleRaw(url=url_norm) raises a ValidationError for these URLs.
ScrapeOneRaises(url) == ~HttpUrlValid(normalize_url(url))

_scrape_one_url(url, o, min_chars, now) ==
    LET record == NewArticleRaw(normalize_url(url), now)
    IN  CASE o.kind = "http_error" ->
               [record EXCEPT !.status = "failed", !.error = "http error"]
          [] o.kind = "exception" ->
               [record EXCEPT !.status = "failed", !.error = "unexpected error"]
          [] o.kind = "response" /\ ~o.html ->
               [record EXCEPT !.http_status = "set", !.status = "failed",
                              !.error = "Empty HTML response"]
          [] OTHER ->
               LET extracted == extract_article(o, min_chars)
               IN  [record EXCEPT !.http_status = "set",
                                  !.title = extracted.title,
                                  !.text = extracted.text,
                                  !.chars = extracted.chars,
                                  !.status = IF extracted.text = "none"
                                             THEN "failed" ELSE "ok",
                                  !.error = IF extracted.text = "none"
                                            THEN "Extraction too short"
                                            ELSE "none"]

FetchOutcomes ==
    {Outcome(k, h, t, c) : k \in {"http_error", "exception", "response"},
                           h \in BOOLEAN, t \in BOOLEAN, c \in 0..MaxChars}

\* One outcome of each class, for the specifications of the whole pipeline.
PipelineOutcomes ==
    {Outcome("http_error", FALSE, FALSE, 0),
     Outcome("exception", FALSE, FALSE, 0),
     Outcome("response", FALSE, FALSE, 0),
     Outcome("response", TRUE, TRUE, PipelineMinChars - 1),
     Outcome("response", TRUE, FALSE, PipelineMinChars + 1)}

(***************************************************************************)
(* The operation in progress.  pc is "done" once it has returned and       *)
(* "raised" once an exception has left it.                                 *)
(***************************************************************************)
IdleProc ==
    [op |-> "none", pc |-> "done", limit |-> NoLimit, min_chars |-> 0,
     url |-> NoUrl, urls |-> <<>>, idx |-> 1, seen |-> {},
     ok |-> 0, failed |-> 0, skipped |-> 0, ineligible |-> 0,
     fetches |-> 0, llm |-> 0, embeds |-> 0,
     rawAt |-> 0, aiAt |-> 0, vecAt |-> 0,
     status |-> "none", stage |-> "none", skip |-> FALSE, index |-> "none",
     exc |-> "none", script |-> <<>>, text |-> "none", result |-> NoUrl]

Idle == proc.pc \in {"done", "raised"}

Summary(p) ==
    [op |-> p.op, pc |-> p.pc, limit |-> p.limit, min_chars |-> p.min_chars,
     url |-> p.url, ok |-> p.ok, failed |-> p.failed, skipped |-> p.skipped,
     status |-> p.status, skip |-> p.skip]

\* The locals every operation starts with.
Begin(op) ==
    [IdleProc EXCEPT !.op = op, !.rawAt = Len(rawStore), !.aiAt = Len(aiStore),
                     !.vecAt = Len(vecStore)]

Started ==
    /\ Idle
    /\ runs < MaxRuns
    /\ runs' = runs + 1
    /\ prev' = Summary(proc)
    /\ peer' = peer

Now == Len(rawStore) + 1

(***************************************************************************)
(* scrape_batch                                                            *)
(***************************************************************************)
ScrapeBatchUrls(lines, limit) ==
    LET urls == read_urls_from_file(lines)
        norm == [i \in 1..Len(urls) |-> normalize_url(urls[i])]
    IN  TakeLimit(norm, limit)

\* The loop is over: the summary is returned.
LoopEnd(p) == IF p.idx > Len(p.urls) THEN [p EXCEPT !.pc = "done"] ELSE p

StartScrapeBatch(limit, min_chars) ==
    /\ Started
    /\ proc' = LoopEnd([Begin("scrape_batch") EXCEPT
                  !.pc = "loop", !.limit = limit, !.min_chars = min_chars,
                  !.urls = ScrapeBatchUrls(urlsFile, limit),
                  !.seen = load_seen_urls("raw" \in files, rawStore)])
    /\ UNCHANGED <<urlsFile, files, rawStore, aiStore, vecStore>>

\* The skip of a URL already in the seen-set left out of skipped_existing.
ScrapeBatchSkipUncounted ==
    /\ proc.op = "scrape_batch" /\ proc.pc = "loop"
    /\ proc.urls[proc.idx] \in proc.seen
    /\ proc' = LoopEnd([proc EXCEPT !.idx = @ + 1])
    /\ UNCHANGED <<urlsFile, files, rawStore, aiStore, vecStore, prev, runs, peer>>

ScrapeBatchSkip ==
    /\ proc.op = "scrape_batch" /\ proc.pc = "loop"
    /\ proc.urls[proc.idx] \in proc.seen
    /\ proc' = LoopEnd([proc EXCEPT !.skipped = @ + 1, !.idx = @ + 1])
    /\ UNCHANGED <<urlsFile, files, rawStore, aiStore, vecStore, prev, runs, peer>>

ScrapeBatchRaise ==
    /\ proc.op = "scrape_batch" /\ proc.pc = "loop"
    /\ proc.urls[proc.idx] \notin proc.seen
    /\ ScrapeOneRaises(proc.urls[proc.idx])
    /\ proc' = [proc EXCEPT !.pc = "raised"]
    /\ UNCHANGED <<urlsFile, files, rawStore, aiStore, vecStore, prev, runs, peer>>

ScrapeBatchScrape(o) ==
    /\ proc.op = "scrape_batch" /\ proc.pc = "loop"
    /\ proc.urls[proc.idx] \notin proc.seen
    /\ ~ScrapeOneRaises(proc.urls[proc.idx])
    /\ LET url    == proc.urls[proc.idx]
           record == _scrape_one_url(url, o, proc.min_chars, Now)
       IN  /\ rawStore' = append_jsonl(rawStore, record)
           /\ files' = files \cup {"raw"}
           /\ proc' = LoopEnd([proc EXCEPT
                         !.seen = @ \cup {url},
                         !.ok = IF record.status = "ok" THEN @ + 1 ELSE @,
                         !.failed = IF record.status = "ok" THEN @ ELSE @ + 1,
                         !.fetches = @ + 1,
                         !.idx = @ + 1])
    /\ UNCHANGED <<urlsFile, aiStore, vecStore, prev, runs, peer>>

(***************************************************************************)
(* scrape_single                                                           *)
(***************************************************************************)
StartScrapeSingle(url, min_chars) ==
    /\ Started
    /\ LET url_norm == normalize_url(url)
           seen     == load_seen_urls("raw" \in files, rawStore)
           p        == [Begin("scrape_single") EXCEPT
                          !.url = url_norm, !.min_chars = min_chars, !.seen = seen]
       IN  proc' = IF url_norm \in seen
                   THEN [p EXCEPT !.pc = "done", !.skipped = 1]
                   ELSE [p EXCEPT !.pc = "scrape"]
    /\ UNCHANGED <<urlsFile, files, rawStore, aiStore, vecStore>>

ScrapeSingleRaise ==
    /\ proc.op = "scrape_single" /\ proc.pc = "scrape"
    /\ ScrapeOneRaises(proc.url)
    /\ proc' = [proc EXCEPT !.pc = "raised"]
    /\ UNCHANGED <<urlsFile, files, rawStore, aiStore, vecStore, prev, runs, peer>>

\* scrape_single reading the seen-set again just before it scrapes, and
\* returning the skip when the URL is in it by then.
ScrapeSingleScrapeRechecked(o) ==
    /\ proc.op = "scrape_single" /\ proc.pc = "scrape"
    /\ ~ScrapeOneRaises(proc.url)
    /\ LET record == _scrape_one_url(proc.url, o, proc.min_chars, Now)
           seen   == load_seen_urls("raw" \in files, rawStore)
       IN  IF proc.url \in seen
           THEN /\ proc' = [proc EXCEPT !.pc = "done", !.skipped = 1]
                /\ UNCHANGED <<rawStore, files>>
           ELSE /\ rawStore' = append_jsonl(rawStore, record)
                /\ files' = files \cup {"raw"}
                /\ proc' = [proc EXCEPT
                              !.pc = "done",
                              !.ok = IF record.status = "ok" THEN 1 ELSE 0,
                              !.failed = IF record.status = "ok" THEN 0 ELSE 1,
                              !.fetches = @ + 1]
    /\ UNCHANGED <<urlsFile, aiStore, vecStore, prev, runs, peer>>

ScrapeSingleScrape(o) ==
    /\ proc.op = "scrape_single" /\ proc.pc = "scrape"
    /\ ~ScrapeOneRaises(proc.url)
    /\ LET record == _scrape_one_url(proc.url, o, proc.min_chars, Now)
       IN  /\ rawStore' = append_jsonl(rawStore, record)
           /\ files' = files \cup {"raw"}
           /\ proc' = [proc EXCEPT
                         !.pc = "done",
                         !.ok = IF record.status = "ok" THEN 1 ELSE 0,
                         !.failed = IF record.status = "ok" THEN 0 ELSE 1,
                         !.fetches = @ + 1]
    /\ UNCHANGED <<urlsFile, aiStore, vecStore, prev, runs, peer>>

(***************************************************************************)
(* LLM collaborator and the schema of its output.                          *)
(***************************************************************************)
LLMAttempts == 3

\* t and t.strip(): "none" is None, "empty" the empty string, "blank" a
\* whitespace-only string.
NonBlank(t) == t \notin {"none", "empty", "blank"}

\* t.strip().lower() on the topic strings the model uses.
StripLower(t) ==
    CASE t = "A" -> "a"
      [] t = " a" -> "a"
      [] t = "B" -> "b"
      [] t = " " -> ""
      [] OTHER -> t

RECURSIVE CleanTopics(_, _)
CleanTopics(v, cleaned) ==
    IF v = <<>> THEN cleaned
    ELSE LET t == StripLower(Head(v))
         IN  CleanTopics(Tail(v),
                         IF t # "" /\ t \notin SeqToSet(cleaned)
                         THEN Append(cleaned, t) ELSE cleaned)

\* The check of the number of topics with its upper limit left out.
TopicsValidAtLeastThree(v) ==
    LET n == Len(CleanTopics(v, <<>>)) IN 3 <= n

TopicsValid(v) ==
    LET n == Len(CleanTopics(v, <<>>)) IN 3 <= n /\ n <= 7

validate_topics(v) == CleanTopics(v, <<>>)

\* One answer of the LLM endpoint: the request fails ("api_error"), the
\* response has no text output ("no_text"), the text is not JSON ("bad_json")
\* or it is a JSON object with a summary ("text" or "blank") and topics.
Response(kind, summary, topics) ==
    [kind |-> kind, summary |-> summary, topics |-> topics]

\* The exception one attempt of analyze_article ends with ("none": it returns).
AttemptError(r) ==
    CASE r.kind = "api_error" -> "APIError"
      [] r.kind = "no_text" -> "RuntimeError"
      [] r.kind = "bad_json" -> "ValueError"
      [] ~NonBlank(r.summary) \/ ~TopicsValid(r.topics) -> "ValidationError"
      [] OTHER -> "none"

\* v.strip() on a summary: "padded" is text with whitespace around it.
summary_not_empty(v) ==
    CASE v = "padded" -> "text"
      [] v = "blank" -> "empty"
      [] OTHER -> v

parse_llm_output(r) ==
    [summary |-> summary_not_empty(r.summary), topics |-> validate_topics(r.topics)]

\* The attempts made with no stop condition: up to the first that returns.
AttemptsMadeUncapped(script) ==
    LET good == {i \in 1..Len(script) : AttemptError(script[i]) = "none"}
    IN  IF good = {} THEN Len(script)
        ELSE CHOOSE i \in good : \A j \in good : i <= j

\* The attempts made on a script of answers: up to the first that returns,
\* and no more than stop_after_attempt allows.
AttemptsMade(script) ==
    LET n    == Min(Len(script), LLMAttempts)
        good == {i \in 1..n : AttemptError(script[i]) = "none"}
    IN  IF good = {} THEN n
        ELSE CHOOSE i \in good : \A j \in good : i <= j

\* LLMClient.analyze_article under its retry decorator.
analyze_article(script) ==
    LET k == AttemptsMade(script)
    IN  [attempts |-> k,
         error |-> AttemptError(script[k]),
         analysis |-> parse_llm_output(script[k])]

GoodResponse == Response("json", "text", <<"a", "b", "c">>)
FewTopicsResponse == Response("json", "text", <<"A", "a", "b">>)
BadJsonResponse == Response("bad_json", "blank", <<>>)
ApiErrorResponse == Response("api_error", "blank", <<>>)

Always(r) == [i \in 1..LLMAttempts |-> r]

ThenGood(r) == [i \in 1..LLMAttempts |-> IF i = 1 THEN r ELSE GoodResponse]

PipelineScripts ==
    {Always(GoodResponse), ThenGood(BadJsonResponse),
     Always(ApiErrorResponse), Always(FewTopicsResponse)}

(***************************************************************************)
(* Analyze stage.                                                          *)
(***************************************************************************)
\* ArticleRaw.model_validate(obj) / ArticleAI.model_validate(obj)
RecordValid(line) == HttpUrlValid(line.url)

Validated(line) == [line EXCEPT !.url = HttpUrlStr(line.url)]

\* The eligibility test without the trimming of the text.
RawEligibleUntrimmed(art) == art.status = "ok" /\ art.text \notin {"none", "empty"}

RawEligible(art) == art.status = "ok" /\ NonBlank(art.text)

\* The AI record built with the text of the raw record left out.
ArticleAIWithoutText(raw) ==
    [url |-> HttpUrlStr(raw.url), title |-> raw.title, text |-> "none",
     fetched_at |-> raw.fetched_at, status |-> raw.status, error |-> raw.error,
     http_status |-> raw.http_status, chars |-> raw.chars,
     summary |-> "none", topics |-> <<>>, llm_model |-> "none"]

\* ArticleAI(**raw.model_dump(mode="json"))
ArticleAI(raw) ==
    [url |-> HttpUrlStr(raw.url), title |-> raw.title, text |-> raw.text,
     fetched_at |-> raw.fetched_at, status |-> raw.status, error |-> raw.error,
     http_status |-> raw.http_status, chars |-> raw.chars,
     summary |-> "none", topics |-> <<>>, llm_model |-> "none"]

analyze_one_article_raw(raw, analysis) ==
    [ArticleAI(raw) EXCEPT !.summary = analysis.summary,
                           !.topics = analysis.topics,
                           !.llm_model = "model"]

\* The failed record built without its status being set.
build_failed_ai_status_kept(raw, exc) ==
    [ArticleAI(raw) EXCEPT !.error = exc, !.llm_model = "model"]

build_failed_ai_from_raw(raw, exc) ==
    [ArticleAI(raw) EXCEPT !.status = "failed", !.error = exc,
                           !.llm_model = "model"]

\* The enriched record appended whether or not the analysis raised.
AnalyzedRecordAlwaysEnriched(raw, res) ==
    analyze_one_article_raw(raw, res.analysis)

\* The record the try/except around analyze_one_article_raw appends.
AnalyzedRecord(raw, res) ==
    IF res.error = "none"
    THEN analyze_one_article_raw(raw, res.analysis)
    ELSE build_failed_ai_from_raw(raw, res.error)

AnalyzeLoopEnd(p) == IF p.idx > Len(rawStore) THEN [p EXCEPT !.pc = "done"] ELSE p

LimitReached(limit, processed) == limit # NoLimit /\ processed >= limit

StartAnalyzeBatch(limit) ==
    /\ Started
    /\ LET p == [Begin("analyze_batch") EXCEPT
                   !.limit = limit,
                   !.seen = load_seen_urls("ai" \in files, aiStore)]
       IN  proc' = IF "raw" \notin files
                   THEN [p EXCEPT !.pc = "raised"]
                   ELSE AnalyzeLoopEnd([p EXCEPT !.pc = "loop"])
    /\ UNCHANGED <<urlsFile, files, rawStore, aiStore, vecStore>>

AnalyzeAt == proc.op = "analyze_batch" /\ proc.pc = "loop"

\* iter_ok_articles: a line that fails ArticleRaw.model_validate
AnalyzeBatchRaise ==
    /\ AnalyzeAt
    /\ ~RecordValid(rawStore[proc.idx])
    /\ proc' = [proc EXCEPT !.pc = "raised"]
    /\ UNCHANGED <<urlsFile, files, rawStore, aiStore, vecStore, prev, runs, peer>>

\* iter_ok_articles: a line it does not yield
AnalyzeBatchIneligible ==
    /\ AnalyzeAt
    /\ RecordValid(rawStore[proc.idx])
    /\ ~RawEligible(Validated(rawStore[proc.idx]))
    /\ proc' = AnalyzeLoopEnd([proc EXCEPT !.idx = @ + 1])
    /\ UNCHANGED <<urlsFile, files, rawStore, aiStore, vecStore, prev, runs, peer>>

AnalyzeYield ==
    /\ AnalyzeAt
    /\ RecordValid(rawStore[proc.idx])
    /\ RawEligible(Validated(rawStore[proc.idx]))

AnalyzeBatchBreak ==
    /\ AnalyzeYield
    /\ LimitReached(proc.limit, proc.ok)
    /\ proc' = [proc EXCEPT !.pc = "done"]
    /\ UNCHANGED <<urlsFile, files, rawStore, aiStore, vecStore, prev, runs, peer>>

AnalyzeBatchSkip ==
    /\ AnalyzeYield
    /\ ~LimitReached(proc.limit, proc.ok)
    /\ normalize_url(Validated(rawStore[proc.idx]).url) \in proc.seen
    /\ proc' = AnalyzeLoopEnd([proc EXCEPT !.skipped = @ + 1, !.idx = @ + 1])
    /\ UNCHANGED <<urlsFile, files, rawStore, aiStore, vecStore, prev, runs, peer>>

AnalyzeBatchAnalyze(script) ==
    /\ AnalyzeYield
    /\ ~LimitReached(proc.limit, proc.ok)
    /\ LET article == Validated(rawStore[proc.idx])
           url_key == normalize_url(article.url)
           res     == analyze_article(script)
       IN  /\ url_key \notin proc.seen
           /\ aiStore' = append_jsonl(aiStore, AnalyzedRecord(article, res))
           /\ files' = files \cup {"ai"}
           /\ proc' = AnalyzeLoopEnd([proc EXCEPT
                         !.ok = IF res.error = "none" THEN @ + 1 ELSE @,
                         !.failed = IF res.error = "none" THEN @ ELSE @ + 1,
                         !.seen = @ \cup {url_key},
                         !.llm = @ + res.attempts,
                         !.exc = res.error,
                         !.idx = @ + 1])
    /\ UNCHANGED <<urlsFile, rawStore, vecStore, prev, runs, peer>>

(***************************************************************************)
(* Embedding collaborator and vector store.                                *)
(***************************************************************************)
EmbedAttempts == 3

\* build_embedding_text: "blank" when no part is added, else "text".
build_embedding_text(article) ==
    IF NonBlank(article.title) \/ NonBlank(article.summary) \/ article.topics # <<>>
    THEN "text" ELSE "blank"

\* Every document given the same id, whatever the article's URL.
article_to_vector_doc_one_id(article) ==
    [id |-> NoUrl, text |-> build_embedding_text(article)]

article_to_vector_doc(article) ==
    [id |-> article.url, text |-> build_embedding_text(article)]

\* EmbeddingsClient.embed_text under its retry decorator, on a script of
\* answers of the embeddings endpoint ("ok", "api_error", "bad_response").
embed_text(text, script) ==
    LET n    == Min(Len(script), EmbedAttempts)
        good == {i \in 1..n : script[i] = "ok"}
        k    == IF good = {} THEN n
                ELSE CHOOSE i \in good : \A j \in good : i <= j
    IN  IF ~NonBlank(text)
        THEN [attempts |-> n, requests |-> 0, error |-> "ValueError"]
        ELSE [attempts |-> k, requests |-> k,
              error |-> CASE script[k] = "ok" -> "none"
                          [] script[k] = "api_error" -> "APIError"
                          [] OTHER -> "RuntimeError"]

EmbedAlways(a) == [i \in 1..EmbedAttempts |-> a]

PipelineEmbedScripts ==
    {EmbedAlways("ok"), EmbedAlways("api_error"),
     [i \in 1..EmbedAttempts |-> IF i = 1 THEN "bad_response" ELSE "ok"]}

existing_ids(store) == SeqToSet(store)

add_documents(store, doc) == Append(store, doc.id)

(***************************************************************************)
(* Index stage.                                                            *)
(***************************************************************************)
\* art.status != "ok" or not art.summary
IndexIneligible(art) == art.status # "ok" \/ art.summary \in {"none", "empty"}

\* The loop left by the exception that handling a record ended with.
IndexLoopEndUncaught(p) ==
    IF p.exc # "none" THEN [p EXCEPT !.pc = "raised"]
    ELSE IF p.idx > Len(aiStore) THEN [p EXCEPT !.pc = "done"] ELSE p

IndexLoopEnd(p) == IF p.idx > Len(aiStore) THEN [p EXCEPT !.pc = "done"] ELSE p

StartIndexBatch(limit) ==
    /\ Started
    /\ LET p == [Begin("index_batch") EXCEPT
                   !.limit = limit, !.seen = existing_ids(vecStore)]
       IN  proc' = IF "ai" \notin files
                   THEN [p EXCEPT !.pc = "raised"]
                   ELSE IndexLoopEnd([p EXCEPT !.pc = "loop"])
    /\ UNCHANGED <<urlsFile, files, rawStore, aiStore, vecStore>>

IndexAt == proc.op = "index_batch" /\ proc.pc = "loop"

IndexBatchBreak ==
    /\ IndexAt
    /\ LimitReached(proc.limit, proc.ok)
    /\ proc' = [proc EXCEPT !.pc = "done"]
    /\ UNCHANGED <<urlsFile, files, rawStore, aiStore, vecStore, prev, runs, peer>>

IndexTry == IndexAt /\ ~LimitReached(proc.limit, proc.ok)

IndexBatchInvalid ==
    /\ IndexTry
    /\ ~RecordValid(aiStore[proc.idx])
    /\ proc' = IndexLoopEnd([proc EXCEPT !.failed = @ + 1, !.idx = @ + 1,
                                         !.exc = "ValidationError"])
    /\ UNCHANGED <<urlsFile, files, rawStore, aiStore, vecStore, prev, runs, peer>>

IndexBatchIneligible ==
    /\ IndexTry
    /\ RecordValid(aiStore[proc.idx])
    /\ IndexIneligible(Validated(aiStore[proc.idx]))
    /\ proc' = IndexLoopEnd([proc EXCEPT !.ineligible = @ + 1, !.idx = @ + 1,
                                         !.exc = "none"])
    /\ UNCHANGED <<urlsFile, files, rawStore, aiStore, vecStore, prev, runs, peer>>

IndexDoc ==
    /\ IndexTry
    /\ RecordValid(aiStore[proc.idx])
    /\ ~IndexIneligible(Validated(aiStore[proc.idx]))

IndexBatchExisting ==
    /\ IndexDoc
    /\ article_to_vector_doc(Validated(aiStore[proc.idx])).id \in proc.seen
    /\ proc' = IndexLoopEnd([proc EXCEPT !.skipped = @ + 1, !.idx = @ + 1,
                                         !.exc = "none"])
    /\ UNCHANGED <<urlsFile, files, rawStore, aiStore, vecStore, prev, runs, peer>>

\* The exception that embedding and adding one document end with ("none":
\* both return); addOk: the vector store's add returns (else it raises).
IndexAddError(emb, addOk) ==
    IF emb.error # "none" THEN emb.error
    ELSE IF addOk THEN "none" ELSE "AddError"

\* embed and add
IndexBatchAdd(script, addOk) ==
    /\ IndexDoc
    /\ LET doc == article_to_vector_doc(Validated(aiStore[proc.idx]))
           emb == embed_text(doc.text, script)
           good == IndexAddError(emb, addOk) = "none"
       IN  /\ doc.id \notin proc.seen
           /\ vecStore' = IF good THEN add_documents(vecStore, doc) ELSE vecStore
           /\ proc' = IndexLoopEnd([proc EXCEPT
                         !.seen = IF good THEN @ \cup {doc.id} ELSE @,
                         !.ok = IF good THEN @ + 1 ELSE @,
                         !.failed = IF good THEN @ ELSE @ + 1,
                         !.embeds = @ + emb.requests,
                         !.exc = IndexAddError(emb, addOk),
                         !.idx = @ + 1])
    /\ UNCHANGED <<urlsFile, files, rawStore, aiStore, prev, runs, peer>>

(***************************************************************************)
(* ingest_url                                                              *)
(***************************************************************************)
Matching(store, url) ==
    {i \in 1..Len(store) : /\ store[i].url # NoUrl
                           /\ normalize_url(store[i].url) = normalize_url(url)}

\* model_cls.model_validate raises on a matching line.
FindLatestRaises(store, url) ==
    \E i \in Matching(store, url) : ~RecordValid(store[i])

\* The is_ok predicates ingest_url passes for the raw and the AI store.
RawOk(r) == r.status = "ok" /\ NonBlank(r.text)

AiOk(a) == a.status = "ok" /\ NonBlank(a.summary)

IsOk(kind, r) == IF kind = "raw" THEN RawOk(r) ELSE AiOk(r)

\* The lookup that looks at the last matching line only, and returns it if
\* it satisfies the predicate.
FindLatestLastLineOnly(exists, store, url, kind) ==
    LET lines == IF exists THEN Matching(store, url) ELSE {}
        last  == IF lines = {} THEN 0
                 ELSE CHOOSE i \in lines : \A j \in lines : j <= i
    IN  IF last # 0 /\ IsOk(kind, Validated(store[last])) THEN last ELSE 0

\* _find_latest_by_url: the position of the record it returns, 0 for None.
FindLatest(exists, store, url, kind) ==
    LET hits == IF exists
                THEN {i \in Matching(store, url) : IsOk(kind, Validated(store[i]))}
                ELSE {}
    IN  IF hits = {} THEN 0 ELSE CHOOSE i \in hits : \A j \in hits : j <= i

StartIngest(url, min_chars) ==
    /\ Started
    /\ LET norm_url == normalize_url(url)
           ai_seen  == load_seen_urls("ai" \in files, aiStore)
           p        == [Begin("ingest") EXCEPT
                          !.url = norm_url, !.min_chars = min_chars]
       IN  proc' = IF norm_url \in ai_seen
                   THEN [p EXCEPT !.pc = "done", !.status = "ok", !.skip = TRUE]
                   ELSE [p EXCEPT !.pc = "scrape"]
    /\ UNCHANGED <<urlsFile, files, rawStore, aiStore, vecStore>>

\* after scrape_single_url_to_jsonl: the lookup of the raw record
IngestLookup(p, exists, store) ==
    IF FindLatestRaises(store, p.url) THEN [p EXCEPT !.pc = "raised"]
    ELSE LET i == FindLatest(exists, store, p.url, "raw")
         IN  IF i = 0
             THEN [p EXCEPT !.pc = "done", !.status = "failed", !.stage = "scrape"]
             ELSE [p EXCEPT !.pc = "analyze", !.idx = i]

IngestAt(pc) == proc.op = "ingest" /\ proc.pc = pc

\* scrape_single_url_to_jsonl skips: the URL is in the raw store's seen-set
IngestScrapeSkip ==
    /\ IngestAt("scrape")
    /\ normalize_url(proc.url) \in load_seen_urls("raw" \in files, rawStore)
    /\ proc' = IngestLookup([proc EXCEPT !.skipped = 1], "raw" \in files, rawStore)
    /\ UNCHANGED <<urlsFile, files, rawStore, aiStore, vecStore, prev, runs, peer>>

IngestScrapeRaise ==
    /\ IngestAt("scrape")
    /\ normalize_url(proc.url) \notin load_seen_urls("raw" \in files, rawStore)
    /\ ScrapeOneRaises(normalize_url(proc.url))
    /\ proc' = [proc EXCEPT !.pc = "raised"]
    /\ UNCHANGED <<urlsFile, files, rawStore, aiStore, vecStore, prev, runs, peer>>

IngestScrape(o) ==
    /\ IngestAt("scrape")
    /\ normalize_url(proc.url) \notin load_seen_urls("raw" \in files, rawStore)
    /\ ~ScrapeOneRaises(normalize_url(proc.url))
    /\ LET record == _scrape_one_url(normalize_url(proc.url), o, proc.min_chars, Now)
       IN  /\ rawStore' = append_jsonl(rawStore, record)
           /\ files' = files \cup {"raw"}
           /\ proc' = IngestLookup([proc EXCEPT !.fetches = @ + 1], TRUE, rawStore')
    /\ UNCHANGED <<urlsFile, aiStore, vecStore, prev, runs, peer>>

IngestAnalyze(script) ==
    /\ IngestAt("analyze")
    /\ LET raw == Validated(rawStore[proc.idx])
           res == analyze_article(script)
           p   == [proc EXCEPT !.llm = @ + res.attempts, !.exc = res.error]
       IN  /\ aiStore' = append_jsonl(aiStore, AnalyzedRecord(raw, res))
           /\ files' = files \cup {"ai"}
           /\ proc' =
                IF res.error # "none"
                THEN [p EXCEPT !.pc = "done", !.status = "failed", !.stage = "analyze"]
                ELSE IF FindLatest(TRUE, aiStore', proc.url, "ai") = 0
                THEN [p EXCEPT !.pc = "done", !.status = "failed", !.stage = "index"]
                ELSE [p EXCEPT !.pc = "index",
                               !.idx = FindLatest(TRUE, aiStore', proc.url, "ai")]
    /\ UNCHANGED <<urlsFile, rawStore, vecStore, prev, runs, peer>>

IngestIndexExisting ==
    /\ IngestAt("index")
    /\ proc.url \in existing_ids(vecStore)
    /\ proc' = [proc EXCEPT !.pc = "done", !.status = "ok", !.index = "skipped_existing"]
    /\ UNCHANGED <<urlsFile, files, rawStore, aiStore, vecStore, prev, runs, peer>>

IngestIndexAdd(script, addOk) ==
    /\ IngestAt("index")
    /\ proc.url \notin existing_ids(vecStore)
    /\ LET doc == article_to_vector_doc(Validated(aiStore[proc.idx]))
           emb == embed_text(doc.text, script)
           good == emb.error = "none" /\ addOk
       IN  /\ vecStore' = IF good THEN add_documents(vecStore, doc) ELSE vecStore
           /\ proc' = IF good
                      THEN [proc EXCEPT !.pc = "done", !.status = "ok", !.index = "added",
                                        !.embeds = @ + emb.requests]
                      ELSE [proc EXCEPT !.pc = "raised", !.stage = "index",
                                        !.embeds = @ + emb.requests]
    /\ UNCHANGED <<urlsFile, files, rawStore, aiStore, prev, runs, peer>>

(***************************************************************************)
(* The three network operations under their retry decorators, each called  *)
(* on its own with a script of the answers the network has ready.          *)
(***************************************************************************)
MaxAnswers == 4

FetchAttempts == 3

\* One answer to client.get: a response, httpx.TimeoutException, another
\* httpx.TransportError, or an exception that is neither.
FetchAnswers == {"response", "timeout", "transport_error", "other_error"}

\* retry_if_exception_type((httpx.TimeoutException, httpx.TransportError))
FetchRetried(a) == a \in {"timeout", "transport_error"}

FetchError(a) ==
    CASE a = "response" -> "none"
      [] a = "timeout" -> "TimeoutException"
      [] a = "transport_error" -> "TransportError"
      [] OTHER -> "Exception"

\* The attempts fetch makes: up to the first answer that is not retried,
\* and no more than stop_after_attempt allows.
FetchAttemptsMade(script) ==
    LET n    == Min(Len(script), FetchAttempts)
        stop == {i \in 1..n : ~FetchRetried(script[i])}
    IN  IF stop = {} THEN n
        ELSE CHOOSE i \in stop : \A j \in stop : i <= j

\* HttpFetcher.fetch under its retry decorator (reraise=True).
fetch(script) ==
    LET k == FetchAttemptsMade(script)
    IN  [attempts |-> k, error |-> FetchError(script[k])]

LLMAnswers ==
    {GoodResponse, FewTopicsResponse, BadJsonResponse, ApiErrorResponse}

EmbedAnswers == {"ok", "api_error", "bad_response"}

Scripts(answers) == [1..MaxAnswers -> answers]

\* The call has returned ("done") or its last exception has left it.
Called(op, script, attempts, error) ==
    [Begin(op) EXCEPT !.script = script, !.exc = error,
                      !.fetches = IF op = "fetch" THEN attempts ELSE 0,
                      !.llm = IF op = "analyze_article" THEN attempts ELSE 0,
                      !.embeds = IF op = "embed_text" THEN attempts ELSE 0,
                      !.pc = IF error = "none" THEN "done" ELSE "raised"]

CallFetch(script) ==
    /\ Idle
    /\ LET res == fetch(script)
       IN  proc' = Called("fetch", script, res.attempts, res.error)
    /\ UNCHANGED <<urlsFile, files, rawStore, aiStore, vecStore, prev, runs, peer>>

CallAnalyzeArticle(script) ==
    /\ Idle
    /\ LET res == analyze_article(script)
       IN  proc' = Called("analyze_article", script, res.attempts, res.error)
    /\ UNCHANGED <<urlsFile, files, rawStore, aiStore, vecStore, prev, runs, peer>>

\* text: "text" or "blank", the argument of embed_text.
CallEmbedText(text, script) ==
    /\ Idle
    /\ LET res == embed_text(text, script)
       IN  proc' = [Called("embed_text", script, res.attempts, res.error)
                      EXCEPT !.text = text]
    /\ UNCHANGED <<urlsFile, files, rawStore, aiStore, vecStore, prev, runs, peer>>

InitRetry ==
    /\ urlsFile = <<>>
    /\ files = {}
    /\ rawStore = <<>>
    /\ aiStore = <<>>
    /\ vecStore = <<>>
    /\ proc = IdleProc
    /\ prev = Summary(IdleProc)
    /\ runs = 0
    /\ peer = IdleProc

NextRetry ==
    \/ \E script \in Scripts(FetchAnswers) : CallFetch(script)
    \/ \E script \in Scripts(LLMAnswers) : CallAnalyzeArticle(script)
    \/ \E text \in {"text", "blank"}, script \in Scripts(EmbedAnswers) :
          CallEmbedText(text, script)

SpecRetry == InitRetry /\ [][NextRetry]_vars

(***************************************************************************)
(* Specification of the scrape stage: scrape_batch and scrape_single runs, *)
(* one after the other, on a raw store that starts absent.                 *)
(***************************************************************************)
InputLines == {UrlLine(u) : u \in PipelineUrls} \cup {CommentLine}

InitScrape ==
    /\ urlsFile \in SeqsUpTo(InputLines, MaxInput)
    /\ files = {}
    /\ rawStore = <<>>
    /\ aiStore = <<>>
    /\ vecStore = <<>>
    /\ proc = IdleProc
    /\ prev = Summary(IdleProc)
    /\ runs = 0
    /\ peer = IdleProc

NextScrape ==
    \/ \E limit \in Limits : StartScrapeBatch(limit, PipelineMinChars)
    \/ ScrapeBatchSkip
    \/ ScrapeBatchRaise
    \/ \E o \in PipelineOutcomes : ScrapeBatchScrape(o)
    \/ \E url \in PipelineUrls : StartScrapeSingle(url, PipelineMinChars)
    \/ ScrapeSingleRaise
    \/ \E o \in PipelineOutcomes : ScrapeSingleScrape(o)

SpecScrape == InitScrape /\ [][NextScrape]_vars

(***************************************************************************)
(* Specification of the pipeline after the scrape stage: analyze_batch,    *)
(* index_batch and ingest_url runs, one after the other, on a raw store    *)
(* that some earlier scrape left behind.                                   *)
(***************************************************************************)
RawLine(url, status, text) ==
    [url |-> url, title |-> "title", text |-> text, fetched_at |-> 0,
     status |-> status, error |-> IF status = "ok" THEN "none" ELSE "http error",
     http_status |-> "set", chars |-> IF text = "text" THEN MaxChars ELSE 0]

PreloadRawLines ==
    {RawLine(UrlX, "ok", "text"), RawLine(UrlXS, "ok", "text"),
     RawLine(UrlY, "ok", "text"), RawLine(UrlY, "ok", "blank"),
     RawLine(UrlX, "failed", "none"), RawLine(UrlFtp, "ok", "text")}

Init ==
    /\ urlsFile = <<>>
    /\ rawStore \in SeqsUpTo(PreloadRawLines, MaxPreload)
    /\ files = IF rawStore = <<>> THEN {} ELSE {"raw"}
    /\ aiStore = <<>>
    /\ vecStore = <<>>
    /\ proc = IdleProc
    /\ prev = Summary(IdleProc)
    /\ runs = 0
    /\ peer = IdleProc

Next ==
    \/ \E limit \in Limits : StartAnalyzeBatch(limit)
    \/ AnalyzeBatchRaise
    \/ AnalyzeBatchIneligible
    \/ AnalyzeBatchBreak
    \/ AnalyzeBatchSkip
    \/ \E script \in PipelineScripts : AnalyzeBatchAnalyze(script)
    \/ \E limit \in Limits : StartIndexBatch(limit)
    \/ IndexBatchBreak
    \/ IndexBatchIneligible
    \/ IndexBatchExisting
    \/ \E script \in PipelineEmbedScripts, addOk \in BOOLEAN : IndexBatchAdd(script, addOk)
    \/ \E url \in PipelineUrls : StartIngest(url, PipelineMinChars)
    \/ IngestScrapeSkip
    \/ IngestScrapeRaise
    \/ \E o \in PipelineOutcomes : IngestScrape(o)
    \/ \E script \in PipelineScripts : IngestAnalyze(script)
    \/ IngestIndexExisting
    \/ \E script \in PipelineEmbedScripts, addOk \in BOOLEAN : IngestIndexAdd(script, addOk)

Spec == Init /\ [][Next]_vars

(***************************************************************************)
(* Specification of the batch stages after scraping: analyze_batch and     *)
(* index_batch runs, one after the other, either on an AI file given as    *)
(* input or on a raw file of at most one line with the AI file absent.     *)
(***************************************************************************)
AiLine(url, status, summary) ==
    [ArticleAI(RawLine(url, "ok", "text")) EXCEPT
        !.url = url, !.status = status, !.summary = summary,
        !.error = IF status = "ok" THEN "none" ELSE "APIError",
        !.topics = IF NonBlank(summary) THEN <<"a", "b", "c">> ELSE <<>>,
        !.llm_model = "model"]

PreloadAiLines ==
    {AiLine(UrlX, "ok", "text"), AiLine(UrlXS, "ok", "text"),
     AiLine(UrlY, "ok", "text"), AiLine(UrlY, "ok", "blank"),
     AiLine(UrlY, "ok", "none"), AiLine(UrlY, "ok", "empty"),
     [AiLine(UrlY, "ok", "blank") EXCEPT !.title = "none"],
     AiLine(UrlX, "failed", "none"),
     AiLine(UrlFtp, "ok", "text")}

InitIndex ==
    /\ urlsFile = <<>>
    /\ \/ /\ rawStore = <<>>
          /\ aiStore \in SeqsUpTo(PreloadAiLines, MaxPreload)
          /\ files = IF aiStore = <<>> THEN {} ELSE {"ai"}
       \/ /\ rawStore \in {<<l>> : l \in PreloadRawLines}
          /\ aiStore = <<>>
          /\ files = {"raw"}
    /\ vecStore = <<>>
    /\ proc = IdleProc
    /\ prev = Summary(IdleProc)
    /\ runs = 0
    /\ peer = IdleProc

NextIndex ==
    \/ \E limit \in Limits : StartAnalyzeBatch(limit)
    \/ AnalyzeBatchRaise
    \/ AnalyzeBatchIneligible
    \/ AnalyzeBatchBreak
    \/ AnalyzeBatchSkip
    \/ \E script \in PipelineScripts : AnalyzeBatchAnalyze(script)
    \/ \E limit \in Limits : StartIndexBatch(limit)
    \/ IndexBatchBreak
    \/ IndexBatchInvalid
    \/ IndexBatchIneligible
    \/ IndexBatchExisting
    \/ \E script \in PipelineEmbedScripts, addOk \in BOOLEAN : IndexBatchAdd(script, addOk)

SpecIndex == InitIndex /\ [][NextIndex]_vars

(***************************************************************************)
(* Specification of two scrape processes (scrape_batch or scrape_single)   *)
(* running concurrently on the same out_file, which starts absent: proc is *)
(* the process on the CPU, peer the other one, and the scheduler may       *)
(* change them over between any two steps.                                 *)
(***************************************************************************)
Switch ==
    /\ proc' = peer
    /\ peer' = proc
    /\ UNCHANGED <<urlsFile, files, rawStore, aiStore, vecStore, prev, runs>>

\* Two spellings of one canonical URL, and a URL that ArticleRaw rejects.
RaceUrls == {UrlX, UrlXS, UrlFtp}

InitRace ==
    /\ urlsFile \in SeqsUpTo({UrlLine(u) : u \in RaceUrls}, MaxInput)
    /\ files = {}
    /\ rawStore = <<>>
    /\ aiStore = <<>>
    /\ vecStore = <<>>
    /\ proc = IdleProc
    /\ prev = Summary(IdleProc)
    /\ runs = 0
    /\ peer = IdleProc

NextRace ==
    \/ \E limit \in Limits : StartScrapeBatch(limit, PipelineMinChars)
    \/ ScrapeBatchSkip
    \/ ScrapeBatchRaise
    \/ \E o \in PipelineOutcomes : ScrapeBatchScrape(o)
    \/ \E url \in RaceUrls : StartScrapeSingle(url, PipelineMinChars)
    \/ ScrapeSingleRaise
    \/ \E o \in PipelineOutcomes : ScrapeSingleScrape(o)
    \/ Switch

SpecRace == InitRace /\ [][NextRace]_vars

(***************************************************************************)
(* Specification of the whole pipeline: runs of the five operations, one   *)
(* after the other, on stores that start absent or as one of the other     *)
(* specifications finds them.                                              *)
(***************************************************************************)
InitAll ==
    /\ urlsFile \in SeqsUpTo({UrlLine(UrlX), UrlLine(UrlFtp)}, MaxInput)
    /\ \/ /\ rawStore \in SeqsUpTo(PreloadRawLines, 1)
          /\ aiStore = <<>>
       \/ /\ rawStore = <<>>
          /\ aiStore \in SeqsUpTo(PreloadAiLines, 1)
    /\ files = (IF rawStore = <<>> THEN {} ELSE {"raw"})
                 \cup (IF aiStore = <<>> THEN {} ELSE {"ai"})
    /\ vecStore = <<>>
    /\ proc = IdleProc
    /\ prev = Summary(IdleProc)
    /\ runs = 0
    /\ peer = IdleProc

NextAll ==
    \/ \E limit \in Limits : StartScrapeBatch(limit, PipelineMinChars)
    \/ ScrapeBatchSkip
    \/ ScrapeBatchRaise
    \/ \E o \in PipelineOutcomes : ScrapeBatchScrape(o)
    \/ \E url \in RaceUrls : StartScrapeSingle(url, PipelineMinChars)
    \/ ScrapeSingleRaise
    \/ \E o \in PipelineOutcomes : ScrapeSingleScrape(o)
    \/ \E limit \in Limits : StartAnalyzeBatch(limit)
    \/ AnalyzeBatchRaise
    \/ AnalyzeBatchIneligible
    \/ AnalyzeBatchBreak
    \/ AnalyzeBatchSkip
    \/ \E script \in PipelineScripts : AnalyzeBatchAnalyze(script)
    \/ \E limit \in Limits : StartIndexBatch(limit)
    \/ IndexBatchBreak
    \/ IndexBatchInvalid
    \/ IndexBatchIneligible
    \/ IndexBatchExisting
    \/ \E script \in PipelineEmbedScripts, addOk \in BOOLEAN : IndexBatchAdd(script, addOk)
    \/ \E url \in PipelineUrls : StartIngest(url, PipelineMinChars)
    \/ IngestScrapeSkip
    \/ IngestScrapeRaise
    \/ \E o \in PipelineOutcomes : IngestScrape(o)
    \/ \E script \in PipelineScripts : IngestAnalyze(script)
    \/ IngestIndexExisting
    \/ \E script \in PipelineEmbedScripts, addOk \in BOOLEAN : IngestIndexAdd(script, addOk)

SpecAll == InitAll /\ [][NextAll]_vars

(***************************************************************************)
(* Specification of the scraping of one URL: scrape_single runs on a raw   *)
(* store that starts absent, for every fetch outcome and every min_chars   *)
(* from 0 up.                                                              *)
(***************************************************************************)
NextScrapeOne ==
    \/ \E url \in RaceUrls, min_chars \in 0..MaxChars :
          StartScrapeSingle(url, min_chars)
    \/ ScrapeSingleRaise
    \/ \E o \in FetchOutcomes : ScrapeSingleScrape(o)

SpecScrapeOne == InitRetry /\ [][NextScrapeOne]_vars

(***************************************************************************)
(* Specification of normalize_url called on its own, on every well-formed  *)
(* URL string with a path of at most MaxPath and a query of at most        *)
(* MaxQuery characters.                                                    *)
(***************************************************************************)
MaxPath == 3
MaxQuery == 2

\* The paths urlsplit gives for a URL with a host: empty or starting with "/".
Paths == {p \in SeqsUpTo({"/", "x"}, MaxPath) : p = <<>> \/ Head(p) = "/"}

UrlStrings ==
    {[ws |-> w, scheme |-> "https", host |-> "a.com", path |-> p,
      qmark |-> (q # <<>> \/ m), query |-> q, frag |-> f] :
        w \in BOOLEAN, p \in Paths, m \in BOOLEAN,
        q \in SeqsUpTo({"q", "/"}, MaxQuery), f \in BOOLEAN}

CallNormalizeUrl(u) ==
    /\ Idle
    /\ proc' = [Begin("normalize_url") EXCEPT !.url = u, !.result = normalize_url(u)]
    /\ UNCHANGED <<urlsFile, files, rawStore, aiStore, vecStore, prev, runs, peer>>

NextNormalize == \E u \in UrlStrings : CallNormalizeUrl(u)

SpecNormalize == InitRetry /\ [][NextNormalize]_vars

(***************************************************************************)
(* Specification of the parsing and validation of LLM output, called on    *)
(* its own on every text the model knows: not JSON, or a JSON object with  *)
(* a summary and a list of topics.                                         *)
(***************************************************************************)
MaxTopics == 3

TopicStrings == {"a", "A", " a", "b", " "}

\* Lists of distinct lowercase topics, to reach both limits of the schema.
TopicPrefixes ==
    {<<>>, <<"c", "d">>, <<"c", "d", "e", "f", "g">>,
     <<"c", "d", "e", "f", "g", "h">>}

TopicLists ==
    {pre \o s : pre \in TopicPrefixes, s \in SeqsUpTo(TopicStrings, MaxTopics)}

LLMOutputs ==
    {BadJsonResponse} \cup
    {Response("json", summary, topics) :
        summary \in {"text", "padded", "blank", "empty"}, topics \in TopicLists}

CallParseLlmOutput(r) ==
    /\ proc = IdleProc
    /\ proc' = [Begin("parse_llm_output") EXCEPT
                  !.script = <<r>>,
                  !.exc = AttemptError(r),
                  !.pc = IF AttemptError(r) = "none" THEN "done" ELSE "raised",
                  !.result = IF AttemptError(r) = "none"
                             THEN parse_llm_output(r) ELSE NoUrl]
    /\ UNCHANGED <<urlsFile, files, rawStore, aiStore, vecStore, prev, runs, peer>>

NextSchema == \E r \in LLMOutputs : CallParseLlmOutput(r)

SpecSchema == InitRetry /\ [][NextSchema]_vars

(***************************************************************************)
(* Specification of the analyze stage alone: analyze_batch runs, one after *)
(* the other, on a raw file of records of every status and kind of text.   *)
(***************************************************************************)
FilterRawLines ==
    {RawLine(url, status, text) :
        url \in {UrlX, UrlY}, status \in {"ok", "failed"},
        text \in {"text", "blank", "empty", "none"}}
      \cup {RawLine(UrlFtp, "ok", "text")}

InitFilter ==
    /\ urlsFile = <<>>
    /\ rawStore \in SeqsUpTo(FilterRawLines, MaxPreload)
    /\ files = {"raw"}
    /\ aiStore = <<>>
    /\ vecStore = <<>>
    /\ proc = IdleProc
    /\ prev = Summary(IdleProc)
    /\ runs = 0
    /\ peer = IdleProc

NextFilter ==
    \/ \E limit \in Limits : StartAnalyzeBatch(limit)
    \/ AnalyzeBatchRaise
    \/ AnalyzeBatchIneligible
    \/ AnalyzeBatchBreak
    \/ AnalyzeBatchSkip
    \/ \E script \in PipelineScripts : AnalyzeBatchAnalyze(script)

SpecFilter == InitFilter /\ [][NextFilter]_vars

(***************************************************************************)
(* Specification of the three batch stages with progress: scrape_batch,    *)
(* analyze_batch and index_batch runs, one after the other, where a run    *)
(* that has a next step to take takes it in the end.                       *)
(***************************************************************************)
NextBatch ==
    \/ \E limit \in Limits : StartScrapeBatch(limit, PipelineMinChars)
    \/ ScrapeBatchSkip
    \/ ScrapeBatchRaise
    \/ \E o \in PipelineOutcomes : ScrapeBatchScrape(o)
    \/ \E limit \in Limits : StartAnalyzeBatch(limit)
    \/ AnalyzeBatchRaise
    \/ AnalyzeBatchIneligible
    \/ AnalyzeBatchBreak
    \/ AnalyzeBatchSkip
    \/ \E script \in PipelineScripts : AnalyzeBatchAnalyze(script)
    \/ \E limit \in Limits : StartIndexBatch(limit)
    \/ IndexBatchBreak
    \/ IndexBatchInvalid
    \/ IndexBatchIneligible
    \/ IndexBatchExisting
    \/ \E script \in PipelineEmbedScripts, addOk \in BOOLEAN : IndexBatchAdd(script, addOk)

SpecBatchFair == InitAll /\ [][NextBatch]_vars /\ WF_vars(NextBatch)

(***************************************************************************)
(* Specification of the latest-matching lookup called on its own, on a raw *)
(* store or an AI store that is absent, empty or holds up to MaxPreload    *)
(* lines.                                                                  *)
(***************************************************************************)
FindRawLines ==
    FilterRawLines \cup {RawLine(UrlXS, status, "text") : status \in {"ok", "failed"}}

InitFind ==
    /\ urlsFile = <<>>
    /\ \/ /\ rawStore \in SeqsUpTo(FindRawLines, MaxPreload)
          /\ aiStore = <<>>
       \/ /\ rawStore = <<>>
          /\ aiStore \in SeqsUpTo(PreloadAiLines, MaxPreload)
    /\ files \in SUBSET {"raw", "ai"}
    /\ rawStore # <<>> => "raw" \in files
    /\ aiStore # <<>> => "ai" \in files
    /\ vecStore = <<>>
    /\ proc = IdleProc
    /\ prev = Summary(IdleProc)
    /\ runs = 0
    /\ peer = IdleProc

\* _find_latest_by_url(file, url, model_cls, is_ok) with the arguments
\* ingest_url gives it for the raw store (kind "raw") or the AI store ("ai").
CallFindLatest(url, kind) ==
    /\ proc = IdleProc
    /\ LET store  == IF kind = "raw" THEN rawStore ELSE aiStore
           exists == kind \in files
           raises == exists /\ FindLatestRaises(store, url)
       IN  proc' = [Begin(IF kind = "raw" THEN "find_latest_raw" ELSE "find_latest_ai")
                      EXCEPT !.url = url,
                             !.pc = IF raises THEN "raised" ELSE "done",
                             !.exc = IF raises THEN "ValidationError" ELSE "none",
                             !.idx = IF raises THEN 0
                                     ELSE FindLatest(exists, store, url, kind)]
    /\ UNCHANGED <<urlsFile, files, rawStore, aiStore, vecStore, prev, runs, peer>>

NextFind == \E url \in PipelineUrls, kind \in {"raw", "ai"} : CallFindLatest(url, kind)

SpecFind == InitFind /\ [][NextFind]_vars

(***************************************************************************)
(* Specification of ingest_url alone: a history of ingest_url calls after  *)
(* the scrape stage, on an AI store and a vector store absent at the       *)
(* start.                                                                  *)
(***************************************************************************)
NextIngest ==
    \/ \E url \in PipelineUrls : StartIngest(url, PipelineMinChars)
    \/ IngestScrapeSkip
    \/ IngestScrapeRaise
    \/ \E o \in PipelineOutcomes : IngestScrape(o)
    \/ \E script \in PipelineScripts : IngestAnalyze(script)
    \/ IngestIndexExisting
    \/ \E script \in PipelineEmbedScripts, addOk \in BOOLEAN : IngestIndexAdd(script, addOk)

SpecIngest == Init /\ [][NextIngest]_vars

(***************************************************************************)
(* Claims about the scrape stage, checked under SpecScrape.                *)
(***************************************************************************)

\* C1: a scrape_batch run that follows another scrape_batch run with the
\* same urls_file, out_file and arguments reports ok + failed = 0 and
\* skipped_existing = total_input, and appends no line to out_file.
C1_SecondRunSkipsAll ==
    (/\ proc.op = "scrape_batch" /\ proc.pc = "done"
     /\ prev.op = "scrape_batch" /\ prev.pc = "done"
     /\ prev.limit = proc.limit /\ prev.min_chars = proc.min_chars)
    => /\ proc.ok + proc.failed = 0
       /\ proc.skipped = Len(proc.urls)
       /\ Len(rawStore) = proc.rawAt

\* C2: after any sequence of scrape_batch and scrape_single runs on a raw
\* store that started absent, no two lines of the raw store have URLs with
\* the same canonical form.
C2_OneLinePerCanonicalUrl ==
    \A i, j \in 1..Len(rawStore) :
        i # j => normalize_url(rawStore[i].url) # normalize_url(rawStore[j].url)

\* The URL an operation of the scrape stage is about to handle, in the
\* canonical form it compares with its seen-set.
ScrapeUrl == IF proc.op = "scrape_batch" THEN proc.urls[proc.idx] ELSE proc.url

ScrapeHandling ==
    \/ proc.op = "scrape_batch" /\ proc.pc = "loop"
    \/ proc.op = "scrape_single" /\ proc.pc = "scrape"

AnalyzeHandling ==
    /\ proc.op = "analyze_batch" /\ proc.pc = "loop"
    /\ RecordValid(rawStore[proc.idx])

\* C3: a URL whose canonical form is in the seen-set of the stage's output
\* store is skipped by scrape_batch, scrape_single and analyze_batch: the
\* step that handles it makes no fetch or LLM call and appends no line.
C3_SeenUrlIsSkipped ==
    [][/\ (/\ ScrapeHandling
           /\ ScrapeUrl \in load_seen_urls("raw" \in files, rawStore))
          => (rawStore' = rawStore /\ proc'.fetches = proc.fetches)
       /\ (/\ AnalyzeHandling
           /\ normalize_url(Validated(rawStore[proc.idx]).url)
                \in load_seen_urls("ai" \in files, aiStore))
          => (aiStore' = aiStore /\ proc'.llm = proc.llm)]_vars

\* C4: for every URL the scrape stage does not skip, the step that handles
\* it appends exactly one RawRecord to the raw store, whatever the outcome.
C4_OneRecordPerAttempt ==
    [][(/\ ScrapeHandling
        /\ proc.op = "scrape_batch" => ScrapeUrl \notin proc.seen)
       => Len(rawStore') = Len(rawStore) + 1]_vars

\* The canonical URLs of the input file that the raw store did not hold when
\* the current run started.
UnseenInput ==
    LET urls == read_urls_from_file(urlsFile)
    IN  {normalize_url(urls[i]) : i \in 1..Len(urls)}
          \ load_seen_urls(TRUE, SubSeq(rawStore, 1, proc.rawAt))

\* C5 as stated: with limit L, skipped URLs do not count toward L, so a run
\* whose input holds at least L not-yet-seen canonical URLs produces exactly
\* L attempts.
C5_SkipsDoNotCount ==
    (/\ proc.op = "scrape_batch" /\ proc.pc = "done"
     /\ proc.limit # NoLimit
     /\ Cardinality(UnseenInput) >= proc.limit)
    => proc.ok + proc.failed = proc.limit

\* C5 as amended: with limit L >= 0 the input list is cut to its first L
\* entries before the seen-set is consulted, so skipped URLs count toward L:
\* attempts plus skips never exceed L, and equal min(L, number of distinct
\* input lines) when the run returns.
C5_LimitCutsInputList ==
    (proc.op = "scrape_batch" /\ proc.limit # NoLimit)
    => /\ proc.ok + proc.failed + proc.skipped <= proc.limit
       /\ proc.pc = "done" =>
            proc.ok + proc.failed + proc.skipped
              = Min(proc.limit, Len(read_urls_from_file(urlsFile)))

\* A run with limit 1 returned having skipped its one URL and attempted
\* nothing, while the input held a URL not yet in the raw store.
C5_Witness ==
    /\ proc.op = "scrape_batch" /\ proc.pc = "done"
    /\ proc.limit = 1 /\ proc.skipped = 1 /\ proc.ok + proc.failed = 0
    /\ UnseenInput # {}

(***************************************************************************)
(* Claims about the analyze stage and ingest_url, checked under Spec.      *)
(***************************************************************************)

\* C6: across analyze_batch and ingest_url runs on the same AI store, each
\* canonical URL gets at most one AIRecord line (so a URL whose analysis
\* failed is never sent to the LLM again: every LLM call appends a line).
C6_OneAiLinePerCanonicalUrl ==
    \A i, j \in 1..Len(aiStore) :
        i # j => normalize_url(aiStore[i].url) # normalize_url(aiStore[j].url)

\* C7: when the analysis of an eligible record raises in analyze_batch, the
\* exception stays in the loop: a failed AIRecord for that record, with the
\* exception kind as error and the model identifier, is appended, failed is
\* incremented, and the loop goes on to the next line (or ends after the
\* last one).
C7_FailureCaughtAndPersisted ==
    [][(/\ proc.op = "analyze_batch" /\ proc.pc = "loop"
        /\ proc'.llm > proc.llm
        /\ proc'.exc # "none")
       => /\ aiStore' = Append(aiStore, Last(aiStore'))
          /\ Last(aiStore').status = "failed"
          /\ Last(aiStore').error = proc'.exc
          /\ Last(aiStore').llm_model = "model"
          /\ Last(aiStore').summary = "none"
          /\ Last(aiStore').url = Validated(rawStore[proc.idx]).url
          /\ proc'.failed = proc.failed + 1
          /\ proc'.ok = proc.ok
          /\ proc'.idx = proc.idx + 1
          /\ proc'.pc = IF proc'.idx > Len(rawStore) THEN "done" ELSE "loop"]_vars

\* An analyze_batch run went on after a failed analysis: the failed record
\* is in the AI store and the record after it was analyzed.
C7_Witness ==
    /\ proc.op = "analyze_batch"
    /\ proc.failed = 1 /\ proc.ok = 1
    /\ Len(aiStore) = proc.aiAt + 2
    /\ aiStore[proc.aiAt + 1].status = "failed"
    /\ aiStore[proc.aiAt + 1].error \in {"APIError", "ValidationError"}
    /\ aiStore[proc.aiAt + 2].status = "ok"

\* C8: in a batch operation whose input file exists, a single bad record
\* never aborts the batch: no exception leaves the run.
C8_BadRecordNeverAborts ==
    /\ proc.op = "scrape_batch" => proc.pc # "raised"
    /\ (proc.op = "analyze_batch" /\ "raw" \in files) => proc.pc # "raised"
    /\ (proc.op = "index_batch" /\ "ai" \in files) => proc.pc # "raised"

\* C9: analyze_batch with limit L analyzes at most L records and appends at
\* most L lines, enriched and failed together.
C9_LimitBoundsAnalyses ==
    (proc.op = "analyze_batch" /\ proc.limit # NoLimit)
    => /\ proc.ok + proc.failed <= proc.limit
       /\ Len(aiStore) - proc.aiAt <= proc.limit

\* C10: an ingest_url call on the URL of the call before it, which returned
\* ok with skipped=false, makes no fetch, LLM or embedding call and, when it
\* returns, returns ok with skipped=true.
C10_SecondIngestSkips ==
    (/\ proc.op = "ingest" /\ prev.op = "ingest"
     /\ prev.url = proc.url
     /\ prev.pc = "done" /\ prev.status = "ok" /\ ~prev.skip)
    => /\ proc.fetches = 0 /\ proc.llm = 0 /\ proc.embeds = 0
       /\ proc.pc # "raised"
       /\ proc.pc = "done" => (proc.status = "ok" /\ proc.skip)

\* The seen-set of the AI store: the canonical URLs of its lines.
AiSeenSet == {normalize_url(aiStore[i].url) : i \in 1..Len(aiStore)}

\* C11: when the canonical form of its URL is in the seen-set of the AI
\* store (a record of any status), ingest_url returns the already_analyzed
\* skip at once, without fetch, LLM or embedding call, and leaves the raw
\* store, the AI store and the vector store as they were.
C11_AnalyzedUrlSkipsUntouched ==
    [][(proc'.op = "ingest" /\ runs' = runs + 1 /\ proc'.url \in AiSeenSet)
       => /\ proc'.pc = "done" /\ proc'.status = "ok" /\ proc'.skip
          /\ proc'.fetches = 0 /\ proc'.llm = 0 /\ proc'.embeds = 0
          /\ rawStore' = rawStore /\ aiStore' = aiStore
          /\ vecStore' = vecStore /\ files' = files]_vars

\* ingest_url returned the skip for a URL whose AI record has status failed.
C11_Witness ==
    /\ proc.op = "ingest" /\ proc.pc = "done" /\ proc.skip
    /\ \E i \in 1..Len(aiStore) :
          aiStore[i].status = "failed" /\ normalize_url(aiStore[i].url) = proc.url

\* C12: ingest_url always ends by returning a result; in particular its
\* index step, whatever the embedding call and the vector store's add do,
\* ends with a returned result that is ok or failed at stage index, never
\* with an exception leaving ingest_url.
C12_IndexStepAlwaysReturns ==
    [][IngestAt("index")
       => /\ proc'.pc = "done"
          /\ proc'.status \in {"ok", "failed"}
          /\ proc'.status = "failed" => proc'.stage = "index"]_vars

\* C13: when the analysis step of ingest_url raises, exactly one failed
\* AIRecord for the URL, carrying the error, is appended to the AI store,
\* the result is failed at stage analyze with that error, and no embedding
\* call or vector-store write happens.
C13_IngestAnalyzeFailure ==
    [][(IngestAt("analyze") /\ proc'.exc # "none")
       => /\ Len(aiStore) = proc.aiAt
          /\ aiStore' = Append(aiStore, Last(aiStore'))
          /\ Last(aiStore').status = "failed"
          /\ Last(aiStore').error = proc'.exc
          /\ Last(aiStore').summary = "none"
          /\ normalize_url(Last(aiStore').url) = normalize_url(proc.url)
          /\ proc'.pc = "done" /\ proc'.status = "failed"
          /\ proc'.stage = "analyze"
          /\ proc'.embeds = 0 /\ proc'.index = "none"
          /\ vecStore' = vecStore /\ rawStore' = rawStore]_vars

\* ingest_url scraped its URL, the analysis raised, and the call returned
\* failed at stage analyze with the failed record last in the AI store.
C13_Witness ==
    /\ proc.op = "ingest" /\ proc.pc = "done"
    /\ proc.status = "failed" /\ proc.stage = "analyze"
    /\ proc.fetches = 1 /\ proc.llm = LLMAttempts
    /\ Len(aiStore) = proc.aiAt + 1
    /\ Last(aiStore).status = "failed"

\* The raw store holds an ok record with non-blank text for the URL of the
\* current ingest_url call.
IngestRawOkExists ==
    \E i \in 1..Len(rawStore) :
        /\ normalize_url(rawStore[i].url) = normalize_url(proc.url)
        /\ RecordValid(rawStore[i]) /\ RawOk(Validated(rawStore[i]))

\* The AI store holds an ok record with non-blank summary for that URL.
IngestAiOkExists ==
    \E i \in 1..Len(aiStore) :
        /\ normalize_url(aiStore[i].url) = normalize_url(proc.url)
        /\ RecordValid(aiStore[i]) /\ AiOk(Validated(aiStore[i]))

\* C14: ingest_url runs scrape, analyze, index in that order and
\* short-circuits: the LLM is called only if an ok raw record with non-blank
\* text exists for the URL after the scrape step, and otherwise the call
\* ends with the result failed at stage scrape; the embedding call and the
\* vector-store add happen only once an ok AIRecord with non-blank summary
\* for the URL is in the AI store.
C14_StagesInOrder ==
    (proc.op = "ingest" /\ ~proc.skip)
    => /\ proc.llm > 0 => IngestRawOkExists
       /\ (proc.pc \in {"done", "raised"} /\ proc.llm = 0)
            => (proc.pc = "done" /\ proc.status = "failed" /\ proc.stage = "scrape")
       /\ (proc.embeds > 0 \/ Len(vecStore) > proc.vecAt \/ proc.pc = "index")
            => (proc.llm > 0 /\ IngestAiOkExists)

\* C16: across index_batch and ingest_url runs, add_documents is never
\* called with an id that is already in the vector store, so no two
\* documents of the store have the same id.
C16_NoIdAddedTwice ==
    \A i, j \in 1..Len(vecStore) : i # j => vecStore[i] # vecStore[j]

(***************************************************************************)
(* Claims about the index stage, checked under SpecIndex.                  *)
(***************************************************************************)

\* The lines of the AI file that index_batch takes as eligible.
EligibleAiLines ==
    {i \in 1..Len(aiStore) :
        RecordValid(aiStore[i]) /\ ~IndexIneligible(Validated(aiStore[i]))}

\* The raw store is one ok record with non-blank text, analyze_batch ran on
\* it first without a failure and index_batch ran next without a failure.
AnalyzeThenIndexDone ==
    /\ runs = 2
    /\ proc.op = "index_batch" /\ proc.pc = "done" /\ proc.failed = 0
    /\ prev.op = "analyze_batch" /\ prev.pc = "done" /\ prev.failed = 0
    /\ Len(rawStore) = 1 /\ RecordValid(rawStore[1])
    /\ RawEligible(Validated(rawStore[1]))

\* index_batch returned, and the run before it was an index_batch run that
\* returned with no failure.
ReindexDone ==
    /\ proc.op = "index_batch" /\ proc.pc = "done"
    /\ prev.op = "index_batch" /\ prev.pc = "done" /\ prev.failed = 0

\* C15 as stated: with one ok raw record for U and successful LLM and
\* embedding calls, analyze_batch followed by index_batch leaves exactly one
\* document, with id U; and rerunning index_batch after a run with no
\* failures adds nothing, counts each eligible record under
\* skipped_existing and leaves the vector store unchanged.
C15_IndexOnceThenSkip ==
    /\ AnalyzeThenIndexDone => vecStore = <<Validated(rawStore[1]).url>>
    /\ ReindexDone
         => /\ proc.ok = 0
            /\ proc.skipped = Cardinality(EligibleAiLines)
            /\ Len(vecStore) = proc.vecAt

\* C15 for runs that their limit does not cut short: the same two
\* properties when no run is given limit 0 and the earlier index_batch run
\* had no limit or added fewer documents than its limit.
C15_IndexOnceThenSkipUncut ==
    /\ (AnalyzeThenIndexDone /\ prev.limit # 0 /\ proc.limit # 0)
         => /\ vecStore = <<Validated(rawStore[1]).url>>
            /\ proc.ok = 1
    /\ (/\ ReindexDone /\ proc.limit # 0
        /\ (prev.limit = NoLimit \/ prev.ok < prev.limit))
         => /\ proc.ok = 0
            /\ proc.skipped = Cardinality(EligibleAiLines)
            /\ Len(vecStore) = proc.vecAt
            /\ existing_ids(vecStore) = proc.seen

\* index_batch was rerun after a run that added two documents: it added
\* nothing and counted both records under skipped_existing.
C15_Witness ==
    /\ ReindexDone /\ prev.limit = NoLimit /\ prev.ok = 2
    /\ proc.ok = 0 /\ proc.skipped = 2 /\ Len(vecStore) = 2

\* C17: index_batch embeds and adds an AIRecord only if its status is ok and
\* its summary is non-blank after trimming; every other record (status
\* failed, summary missing, empty or whitespace-only) is counted under
\* skipped_ineligible and causes no embedding call and no vector-store write.
C17_OnlyNonBlankSummaryIndexed ==
    [][(IndexTry /\ RecordValid(aiStore[proc.idx]))
       => LET art == Validated(aiStore[proc.idx])
          IN  (art.status # "ok" \/ ~NonBlank(art.summary))
                => /\ proc'.ineligible = proc.ineligible + 1
                   /\ proc'.embeds = proc.embeds
                   /\ proc'.ok = proc.ok /\ proc'.failed = proc.failed
                   /\ vecStore' = vecStore]_vars

\* C18: in index_batch an exception raised while validating, embedding or
\* adding one record is caught and counted under failed, the record's id
\* goes neither into the vector store nor into the in-memory existing-id
\* set, and the loop continues with the next record (or ends after the
\* last one).
C18_IndexFailureCaught ==
    [][(IndexAt /\ proc'.exc # "none")
       => /\ proc'.failed = proc.failed + 1
          /\ proc'.ok = proc.ok
          /\ vecStore' = vecStore
          /\ proc'.seen = proc.seen
          /\ proc'.idx = proc.idx + 1
          /\ proc'.pc = IF proc'.idx > Len(aiStore) THEN "done" ELSE "loop"]_vars

\* An index_batch run counted a failure for its first record, which fails
\* validation, and indexed the record after it.
C18_Witness ==
    /\ proc.op = "index_batch" /\ proc.idx = 3
    /\ proc.failed = 1 /\ proc.ok = 1
    /\ Len(vecStore) = proc.vecAt + 1
    /\ ~RecordValid(aiStore[1])
    /\ Last(vecStore) = Validated(aiStore[2]).url

(***************************************************************************)
(* Claims about the retry policies, checked under SpecRetry.               *)
(***************************************************************************)

\* C19: each of fetch, the LLM analysis call and the embedding call is
\* attempted at most 3 times per invocation; every attempt of fetch but the
\* first follows a timeout or transport error; the call returns at the
\* first attempt that succeeds, and when the last allowed attempt fails (or
\* fetch meets an error it does not retry) that attempt's exception leaves
\* the call.
C19_AtMostThreeAttempts ==
    /\ proc.op = "fetch" =>
         LET n == proc.fetches
         IN  /\ 1 <= n /\ n <= 3
             /\ \A i \in 1..(n - 1) :
                   proc.script[i] \in {"timeout", "transport_error"}
             /\ proc.script[n] \in {"timeout", "transport_error"} => n = 3
             /\ proc.exc = FetchError(proc.script[n])
             /\ proc.pc = IF proc.script[n] = "response" THEN "done" ELSE "raised"
    /\ proc.op = "analyze_article" =>
         LET n == proc.llm
         IN  /\ 1 <= n /\ n <= 3
             /\ \A i \in 1..(n - 1) : AttemptError(proc.script[i]) # "none"
             /\ AttemptError(proc.script[n]) # "none" => n = 3
             /\ proc.exc = AttemptError(proc.script[n])
             /\ proc.pc = IF proc.exc = "none" THEN "done" ELSE "raised"
    /\ proc.op = "embed_text" =>
         LET n == proc.embeds
         IN  /\ 1 <= n /\ n <= 3
             /\ proc.text = "text" =>
                  /\ \A i \in 1..(n - 1) : proc.script[i] # "ok"
                  /\ proc.script[n] # "ok" => n = 3
                  /\ proc.exc = "none" <=> proc.script[n] = "ok"
             /\ proc.text = "blank" => (n = 3 /\ proc.exc = "ValueError")
             /\ proc.pc = IF proc.exc = "none" THEN "done" ELSE "raised"

\* fetch met a transport error, was attempted again and gave up on the
\* timeout of its third attempt although a response was ready for a fourth.
C19_Witness ==
    /\ proc.op = "fetch" /\ proc.pc = "raised"
    /\ proc.fetches = 3 /\ proc.exc = "TimeoutException"
    /\ proc.script[1] = "transport_error" /\ proc.script[4] = "response"

\* C20: output of the LLM that is not valid JSON or fails the
\* summary/topics schema does not trigger another LLM request: every attempt
\* of analyze_article that is followed by another one failed at the
\* transport level.
C20_SchemaFailureNotRetried ==
    proc.op = "analyze_article"
    => \A i \in 1..(proc.llm - 1) : proc.script[i].kind = "api_error"

(***************************************************************************)
(* Claims about concurrent scrape processes, checked under SpecRace.       *)
(***************************************************************************)

\* C21: a scrape process (scrape_batch or scrape_single) does not look at
\* out_file again between taking its seen-set snapshot and writing: when it
\* handles a URL that its snapshot lacks it appends a record for it, also
\* when out_file holds a record for that canonical URL by then; so with two
\* concurrent processes on the same out_file and the same canonical URL a
\* state where out_file holds two records for that URL is reachable.
C21_WritesWithoutRecheck ==
    [][(/\ ScrapeHandling /\ peer' = peer
        /\ ScrapeUrl \notin proc.seen
        /\ ~ScrapeOneRaises(ScrapeUrl))
       => /\ Len(rawStore') = Len(rawStore) + 1
          /\ SubSeq(rawStore', 1, Len(rawStore)) = rawStore
          /\ Last(rawStore').url = HttpUrlStr(normalize_url(ScrapeUrl))]_vars

\* A scrape_batch and a scrape_single process both started while out_file
\* was absent, both have returned, and out_file holds two records for the
\* same URL.
C21_Witness ==
    /\ proc.op = "scrape_batch" /\ proc.pc = "done" /\ proc.rawAt = 0
    /\ peer.op = "scrape_single" /\ peer.pc = "done" /\ peer.rawAt = 0
    /\ proc.ok + proc.failed = 1 /\ peer.ok + peer.failed = 1
    /\ Len(rawStore) = 2
    /\ rawStore[1].url = UrlX /\ rawStore[2].url = UrlX

(***************************************************************************)
(* Claims about the whole pipeline, checked under SpecAll.                 *)
(***************************************************************************)

IsPrefix(s, t) == Len(s) <= Len(t) /\ SubSeq(t, 1, Len(s)) = s

\* C22: the record stores are append-only: in every step of scrape_batch,
\* scrape_single, analyze_batch, index_batch and ingest_url the content of
\* the raw store and of the AI store before the step is a prefix of its
\* content after it; analyze_batch never writes the raw store, and
\* index_batch writes neither the raw store nor the AI store.
C22_AppendOnly ==
    [][/\ IsPrefix(rawStore, rawStore')
       /\ IsPrefix(aiStore, aiStore')
       /\ proc'.op = "analyze_batch" => rawStore' = rawStore
       /\ proc'.op = "index_batch" => (rawStore' = rawStore /\ aiStore' = aiStore)]_vars

\* ingest_url appended a line to the raw store and a line to the AI store,
\* after the line the AI store held before.
C22_Witness ==
    /\ proc.op = "ingest" /\ proc.pc = "done"
    /\ proc.aiAt = 1 /\ Len(aiStore) = 2
    /\ proc.rawAt = 0 /\ Len(rawStore) = 1

(***************************************************************************)
(* Claims about the scraping of one URL, checked under SpecScrapeOne.      *)
(***************************************************************************)

\* The four cases of the classification of one fetch outcome.
Classified(o, min_chars, record) ==
    /\ o.kind = "http_error"
         => (record.status = "failed" /\ record.http_status = "unset")
    /\ (o.kind = "response" /\ ~o.html)
         => (record.status = "failed" /\ record.error = "Empty HTML response")
    /\ (o.kind = "response" /\ o.html /\ o.chars < min_chars)
         => /\ record.status = "failed"
            /\ record.title = IF o.title THEN "title" ELSE "none"
    /\ (o.kind = "response" /\ o.html /\ o.chars >= min_chars)
         => record.status = "ok"

\* C23: for every fetch outcome and every min_chars >= 0 the record of
\* scrape_one has status failed with http_status and content_type unset
\* (the two are set together) after a transport or timeout error, status
\* failed with error "Empty HTML response" for empty HTML, status failed with
\* the title recorded for extracted text shorter than min_chars, and status
\* ok in every other case (non-empty HTML, text not shorter than min_chars).
C23_ScrapeOneClassifies ==
    [][\A o \in FetchOutcomes :
          ScrapeSingleScrape(o) => Classified(o, proc.min_chars, Last(rawStore'))]_vars

(***************************************************************************)
(* Claims about normalize_url, checked under SpecNormalize.                *)
(***************************************************************************)

\* C24: for every well-formed URL string u, normalize_url trims surrounding
\* whitespace, removes the fragment and removes one trailing slash of the
\* path unless the path is empty or root: u with a trailing slash added to
\* a non-root path normalizes as u does, u with a fragment normalizes as u
\* does, the root-path slash is kept, and no character of the query string
\* is removed.
C24_NormalizeUrl ==
    proc.op = "normalize_url"
    => LET u == proc.url
           r == proc.result
       IN  /\ ~r.ws /\ ~r.frag
           /\ r.scheme = u.scheme /\ r.host = u.host
           /\ r.path = IF u.path \notin {<<>>, <<"/">>} /\ Last(u.path) = "/"
                       THEN Front(u.path) ELSE u.path
           /\ (u.path # <<>> /\ Last(u.path) # "/")
                => normalize_url([u EXCEPT !.path = Append(@, "/")]) = r
           /\ normalize_url([u EXCEPT !.frag = TRUE]) = r
           /\ u.path = <<"/">> => r.path = <<"/">>
           /\ r.query = u.query

\* C31: normalize_url is idempotent: for every URL string u, including the
\* ones whose path ends in several slashes, normalizing the result of
\* normalize_url(u) again gives that result back.
C31_NormalizeUrlIdempotent ==
    proc.op = "normalize_url" => normalize_url(proc.result) = proc.result

(***************************************************************************)
(* Claims about the schema of the LLM output, checked under SpecSchema.    *)
(***************************************************************************)

\* The position of the first entry of v that is t once trimmed and lowercased.
FirstAt(v, t) ==
    CHOOSE i \in 1..Len(v) :
        StripLower(v[i]) = t /\ \A j \in 1..(i - 1) : StripLower(v[j]) # t

\* The trimmed, lowercased, non-empty entries of v.
CleanedSet(v) == {StripLower(v[i]) : i \in 1..Len(v)} \ {""}

\* C25: for every list of topic strings, topics validation returns the
\* trimmed, lowercased, non-empty entries with duplicates removed, in the
\* order of their first occurrence, and rejects the input exactly when fewer
\* than 3 or more than 7 entries remain after that cleaning; a summary that
\* is blank after trimming is rejected too.
C25_TopicsCleanedAndCounted ==
    (proc.op = "parse_llm_output" /\ proc.script[1].kind = "json")
    => LET v      == proc.script[1].topics
           n      == Cardinality(CleanedSet(v))
           topics == proc.result.topics
       IN  /\ proc.pc = "raised"
                <=> (n < 3 \/ n > 7 \/ proc.script[1].summary \in {"blank", "empty"})
           /\ proc.pc = "done"
                => /\ SeqToSet(topics) = CleanedSet(v)
                   /\ Len(topics) = n
                   /\ \A j, k \in 1..Len(topics) :
                         j < k => FirstAt(v, topics[j]) < FirstAt(v, topics[k])
                   /\ proc.result.summary = "text"

\* A list of 8 entries, one of them blank and two of them spellings of "a",
\* was accepted and returned as its 6 cleaned entries in order.
C25_Witness ==
    /\ proc.op = "parse_llm_output" /\ proc.pc = "done"
    /\ proc.script[1].topics = <<"c", "d", "e", "f", "g", "A", " ", " a">>
    /\ proc.script[1].summary = "padded"
    /\ proc.result = [summary |-> "text", topics |-> <<"c", "d", "e", "f", "g", "a">>]

(***************************************************************************)
(* Claims about the eligibility filter, checked under SpecFilter.          *)
(***************************************************************************)

\* The step hands the record at proc.idx to the body of the analyze loop:
\* the loop breaks on its limit, skips the record or analyzes it.
YieldedStep ==
    \/ proc'.pc = "done" /\ proc'.idx = proc.idx
    \/ proc'.skipped = proc.skipped + 1
    \/ Len(aiStore') = Len(aiStore) + 1

\* C26: the eligibility filter of the analyze stage yields, in file order,
\* exactly the raw records (the lines that validate as ArticleRaw) whose
\* status is ok and whose text is non-empty
\* after trimming: a record with status ok and whitespace-only text is not
\* yielded, nor is a record with status failed, whatever its text; a record
\* not yielded is passed over with nothing counted or written.
C26_EligibilityFilter ==
    [][(AnalyzeAt /\ RecordValid(rawStore[proc.idx]))
       => LET art    == Validated(rawStore[proc.idx])
              passes == /\ art.status = "ok"
                        /\ art.text \notin {"none", "empty", "blank"}
          IN  /\ passes <=> YieldedStep
              /\ proc'.idx \in {proc.idx, proc.idx + 1}
              /\ ~passes => /\ proc'.idx = proc.idx + 1
                            /\ proc'.llm = proc.llm
                            /\ proc'.ok = proc.ok /\ proc'.failed = proc.failed
                            /\ aiStore' = aiStore]_vars

\* analyze_batch passed over an ok record with whitespace-only text and a
\* failed record with text, neither analyzed nor counted.
C26_Witness ==
    /\ proc.op = "analyze_batch" /\ proc.pc = "done"
    /\ rawStore = <<RawLine(UrlX, "ok", "blank"), RawLine(UrlY, "failed", "text")>>
    /\ aiStore = <<>>
    /\ proc.ok = 0 /\ proc.failed = 0 /\ proc.skipped = 0 /\ proc.idx = 3

(***************************************************************************)
(* Claims about the records appended to the AI store, checked under        *)
(* SpecAll.                                                                *)
(***************************************************************************)


\* C27: every AIRecord that analyze_batch or ingest_url appends to the AI
\* store either has status ok with a non-blank summary and 3 to 7 distinct
\* lowercase topics, or has status failed with an error message and no
\* summary; in both cases its url, title, text, fetched_at and chars are
\* those of the raw record it was built from.
C27_AppendedAiRecordWellFormed ==
    [][Len(aiStore') = Len(aiStore) + 1
       => LET ai  == Last(aiStore')
              raw == Validated(rawStore[proc.idx])
          IN  /\ proc.op \in {"analyze_batch", "ingest"}
              /\ \/ /\ ai.status = "ok"
                    /\ ai.summary \notin {"none", "empty", "blank"}
                    /\ Len(ai.topics) \in 3..7
                    /\ \A j, k \in 1..Len(ai.topics) :
                          j # k => ai.topics[j] # ai.topics[k]
                    /\ \A j \in 1..Len(ai.topics) :
                          ai.topics[j] \in {"a", "b", "c", "d", "e", "f", "g", "h"}
                 \/ /\ ai.status = "failed"
                    /\ ai.error \notin {"none", "empty"}
                    /\ ai.summary = "none"
              /\ ai.url = raw.url /\ ai.title = raw.title /\ ai.text = raw.text
              /\ ai.fetched_at = raw.fetched_at /\ ai.chars = raw.chars]_vars

\* analyze_batch, run after a scrape_batch run, appended a failed record
\* for the first raw record and an ok record for the scraped one.
C27_Witness ==
    /\ proc.op = "analyze_batch" /\ prev.op = "scrape_batch"
    /\ proc.failed = 1 /\ proc.ok = 1
    /\ Len(rawStore) = 2 /\ Len(aiStore) = 2
    /\ aiStore[1].status = "failed" /\ aiStore[1].summary = "none"
    /\ aiStore[2].status = "ok" /\ aiStore[2].topics = <<"a", "b", "c">>
    /\ aiStore[2].fetched_at = rawStore[2].fetched_at
    /\ aiStore[2].fetched_at # aiStore[1].fetched_at

(***************************************************************************)
(* Claims about the termination of the batch stages, checked under         *)
(* SpecBatchFair.                                                          *)
(***************************************************************************)

\* A batch run whose input file exists is in its loop.
BatchRunning ==
    /\ proc.op \in {"scrape_batch", "analyze_batch", "index_batch"}
    /\ proc.pc = "loop"

\* C28: given that its input file exists (and is finite), each of
\* scrape_batch, analyze_batch and index_batch terminates in the end and
\* returns its summary of counts, whatever failures its collaborators
\* produce, also when every record fails: the run that is in its loop is
\* the run that returns.
C28_BatchesReturnSummary ==
    \A n \in 1..MaxRuns :
        (BatchRunning /\ runs = n) ~> (proc.pc = "done" /\ runs = n)

(***************************************************************************)
(* Claims about the latest-matching lookup, checked under SpecFind.        *)
(***************************************************************************)

\* The store the lookup in proc reads, and whether its file exists.
FindStore == IF proc.op = "find_latest_raw" THEN rawStore ELSE aiStore

FindFileExists == (IF proc.op = "find_latest_raw" THEN "raw" ELSE "ai") \in files

\* Line j of that store has the target's normalized URL and is eligible: an
\* ok raw record with non-blank text, or an ok AI record with non-blank
\* summary.
FindHit(j) ==
    LET line == FindStore[j]
    IN  /\ normalize_url(line.url) = normalize_url(proc.url)
        /\ line.status = "ok"
        /\ (IF proc.op = "find_latest_raw" THEN line.text ELSE line.summary)
              \notin {"none", "empty", "blank"}

\* C29: the latest-matching lookup returns the last line of the store whose
\* normalized URL equals the normalized target and which satisfies the
\* eligibility predicate, or nothing when there is no such line or the file
\* is absent; a later line that matches the URL and fails the predicate does
\* not hide an earlier eligible line.  (Lines are records: the lookup that
\* meets a matching line that is no valid record raises.)
C29_FindLatestByUrl ==
    (proc.op \in {"find_latest_raw", "find_latest_ai"} /\ proc.pc = "done")
    => LET hits == {j \in 1..Len(FindStore) : FindHit(j)}
       IN  IF ~FindFileExists \/ hits = {}
           THEN proc.idx = 0
           ELSE proc.idx \in hits /\ \A j \in hits : j <= proc.idx

\* The lookup returned the first line of a raw store whose second line has
\* the same normalized URL, written differently, and status failed.
C29_Witness ==
    /\ proc.op = "find_latest_raw" /\ proc.pc = "done" /\ proc.idx = 1
    /\ proc.url = UrlXS
    /\ rawStore = <<RawLine(UrlX, "ok", "text"), RawLine(UrlXS, "failed", "text")>>

(***************************************************************************)
(* Claims about seen-sets and absent files, checked under SpecAll.         *)
(***************************************************************************)

\* The normalized url fields of the records of a store.
NormalizedUrls(store) == {normalize_url(store[i].url) : i \in 1..Len(store)}

\* C30: the seen-set a stage loads is empty when the store file is absent
\* and otherwise exactly the set of normalized url fields of its records,
\* while reading the records of an absent file fails with a not-found
\* error: a scrape or analyze stage whose output store is absent starts with
\* every URL unseen, and analyze_batch or index_batch whose input store is
\* absent ends with that error instead of returning a summary.
C30_SeenSetAndAbsentFiles ==
    [][runs' = runs + 1
       => /\ proc'.op \in {"scrape_batch", "scrape_single"}
               => proc'.seen = IF "raw" \in files THEN NormalizedUrls(rawStore) ELSE {}
          /\ proc'.op = "analyze_batch"
               => /\ proc'.seen = IF "ai" \in files THEN NormalizedUrls(aiStore) ELSE {}
                  /\ "raw" \notin files <=> proc'.pc = "raised"
          /\ proc'.op = "index_batch"
               => ("ai" \notin files <=> proc'.pc = "raised")
          /\ proc'.pc = "raised"
               => (rawStore' = rawStore /\ aiStore' = aiStore /\ vecStore' = vecStore)]_vars

\* analyze_batch was started with the raw file absent and ended with the
\* error at once, having loaded the seen-set of the AI store's one record,
\* whose url field is written with a trailing slash.
C30_Witness ==
    /\ proc.op = "analyze_batch" /\ proc.pc = "raised" /\ proc.idx = 1
    /\ "raw" \notin files /\ aiStore = <<AiLine(UrlXS, "ok", "text")>>
    /\ proc.seen = {UrlX}

(***************************************************************************)
(* Claims about histories of ingest_url calls, checked under SpecIngest.   *)
(***************************************************************************)

\* The vector store holds a document whose id is url up to normalization
\* and the writing of a validated URL.
HasDocumentFor(store, url) ==
    \E id \in existing_ids(store) :
        HttpUrlStr(normalize_url(id)) = HttpUrlStr(normalize_url(url))

\* C32: whenever ingest_url returns status ok for a URL, with skipped false
\* or in the skipped already_analyzed case, the vector store holds a document
\* for that URL at the time of return, whatever ingest_url calls came before,
\* including calls that failed at the analyze step or raised while embedding.
C32_OkMeansIndexed ==
    (proc.op = "ingest" /\ proc.pc = "done" /\ proc.status = "ok")
        => HasDocumentFor(vecStore, proc.url)

(***************************************************************************)
(* Claims about the summaries of the batch stages, checked under SpecAll.  *)
(***************************************************************************)

\* C33: the summary a batch stage returns accounts for every record:
\* scrape_batch returns ok + failed + skipped_existing = total_input and has
\* appended exactly ok + failed lines to out_file; analyze_batch has appended
\* exactly processed + failed lines to the AI store; index_batch has added
\* exactly `added` documents to the vector store and, when its loop was not
\* left at the limit, added + skipped_existing + skipped_ineligible + failed
\* is the number of records in the AI file.
C33_SummariesAccountForEveryRecord ==
    /\ (proc.op = "scrape_batch" /\ proc.pc = "done")
         => /\ proc.ok + proc.failed + proc.skipped = Len(proc.urls)
            /\ Len(rawStore) = proc.rawAt + proc.ok + proc.failed
    /\ (proc.op = "analyze_batch" /\ proc.pc = "done")
         => Len(aiStore) = proc.aiAt + proc.ok + proc.failed
    /\ (proc.op = "index_batch" /\ proc.pc = "done")
         => /\ Len(vecStore) = proc.vecAt + proc.ok
            /\ proc.idx > Len(aiStore)
                 => proc.ok + proc.skipped + proc.ineligible + proc.failed
                      = Len(aiStore)

\* An index_batch run over the record an analyze_batch run before it wrote
\* has returned, with one document added.
C33_Witness ==
    /\ proc.op = "index_batch" /\ proc.pc = "done"
    /\ proc.idx > Len(aiStore)
    /\ proc.ok = 1 /\ Len(vecStore) = 1
    /\ prev.op = "analyze_batch" /\ prev.pc = "done" /\ prev.ok = 1

====
